---- MODULE Spec2Model ----
(***************************************************************************)
(* Model of InterfaceBuilder (src/server/schemas-to-ts/interfaceBuilder.ts):*)
(* the generation of the four interface variants of a Strapi schema, the   *)
(* resolution of their dependencies into import statements and the         *)
(* assembly of the interfaces file.                                        *)
(*                                                                         *)
(* Representation.  A JavaScript string the code inspects (includes,       *)
(* endsWith, split, replace, pascalCase) is a sequence of one-character    *)
(* strings; Str turns it into the text it stands for.  Generated text is a *)
(* sequence of lines: a body is the sequence of its lines, each a record   *)
(* holding the pieces the template literal of the code puts together, and  *)
(* RenderLine gives the characters of the line.  A text t1 \n t2 ... is    *)
(* the sequence <<t1, t2, ...>>, so a text ending in \n ends with "".      *)
(***************************************************************************)
EXTENDS Integers, Sequences, FiniteSets, TLC

VARIABLES
    isWindows,    \* CommonHelpers.isWindows(): the platform of the run
    schemas,      \* allSchemas: the registry, a sequence of SchemaInfo records
    runs,         \* runs[i]: calls of convertSchemaToInterfaces on schemas[i] so far
    files,        \* files[i]: the text last returned by buildInterfacesFileContent
                  \* for schemas[i], which the caller writes to the schema's file
    pc            \* where the caller is in its two loops over the batch

vars == <<isWindows, schemas, runs, files, pc>>

(***************************************************************************)
(* Bounds of the model.                                                    *)
(***************************************************************************)
MaxAttrs == 2
MaxRuns == 2

(***************************************************************************)
(* JavaScript string operations, on sequences of characters.               *)
(***************************************************************************)
RECURSIVE Str(_)
Str(s) == IF s = <<>> THEN "" ELSE Head(s) \o Str(Tail(s))

\* the least i with needle at s[i..], or 0 (String.prototype.indexOf, 1-based)
IndexOf(s, needle) ==
    LET hits == { i \in 1..(Len(s) - Len(needle) + 1) :
                    /\ s[i] = needle[1]
                    /\ SubSeq(s, i, i + Len(needle) - 1) = needle }
    IN  IF hits = {} THEN 0 ELSE CHOOSE i \in hits : \A j \in hits : i <= j

Includes(s, needle) == IndexOf(s, needle) # 0

EndsWith(s, suffix) ==
    /\ Len(suffix) <= Len(s)
    /\ SubSeq(s, Len(s) - Len(suffix) + 1, Len(s)) = suffix

\* String.prototype.replace with a string pattern: the first occurrence only
Replace(s, needle, by) ==
    LET i == IndexOf(s, needle)
    IN  IF i = 0 THEN s
        ELSE SubSeq(s, 1, i - 1) \o by \o SubSeq(s, i + Len(needle), Len(s))

\* s.split(sep)[1]: the piece after the first separator, up to the next one
SplitSecond(s, sep) ==
    LET i == IndexOf(s, <<sep>>)
        rest == SubSeq(s, i + 1, Len(s))
        j == IndexOf(rest, <<sep>>)
    IN  IF j = 0 THEN rest ELSE SubSeq(rest, 1, j - 1)

Lower == <<"a","b","c","d","e","f","g","h","i","j","k","l","m",
           "n","o","p","q","r","s","t","u","v","w","x","y","z">>
Upper == <<"A","B","C","D","E","F","G","H","I","J","K","L","M",
           "N","O","P","Q","R","S","T","U","V","W","X","Y","Z">>

IsLower(c) == \E i \in 1..Len(Lower) : Lower[i] = c
ToUpperCase(c) ==
    IF IsLower(c) THEN Upper[CHOOSE i \in 1..Len(Lower) : Lower[i] = c] ELSE c

\* pascalCase of the pascal-case package, on the names Strapi gives schemas
\* (lower-case letters separated by hyphens): the name is split at every run
\* of non-alphanumeric characters, the first letter of each word is put in
\* upper case and the words are joined with nothing between them.
RECURSIVE PascalFrom(_, _)
PascalFrom(s, atWordStart) ==
    IF s = <<>> THEN <<>>
    ELSE IF ~IsLower(Head(s)) THEN PascalFrom(Tail(s), TRUE)
    ELSE <<IF atWordStart THEN ToUpperCase(Head(s)) ELSE Head(s)>>
            \o PascalFrom(Tail(s), FALSE)

pascalCase(s) == PascalFrom(s, TRUE)

\* a field of a JavaScript object that may be absent
Has(o, f) == f \in DOMAIN o
IsTrue(o, f) == Has(o, f) /\ o[f] = TRUE

\* a value that may be undefined: <<>> or <<v>>
Undefined == <<>>
Some(v) == <<v>>

RECURSIVE Concat(_)
Concat(ss) == IF ss = <<>> THEN <<>> ELSE Head(ss) \o Concat(Tail(ss))

(***************************************************************************)
(* The strings the code compares with and appends.                         *)
(***************************************************************************)
UserNeedle == <<":",":","u","s","e","r">>
PlainSuffix == <<"_","P","l","a","i","n">>
NoRelationsSuffix == <<"_","N","o","R","e","l","a","t","i","o","n","s">>
AdminPanelLifeCycleSuffix ==
    <<"_","A","d","m","i","n","P","a","n","e","l","L","i","f","e","C","y","c","l","e">>
ToMany == <<"T","o","M","a","n","y">>
oneToOne == <<"o","n","e","T","o","O","n","e">>
oneToMany == <<"o","n","e","T","o","M","a","n","y">>
manyToOne == <<"m","a","n","y","T","o","O","n","e">>
manyToMany == <<"m","a","n","y","T","o","M","a","n","y">>
UsersPermissionsUser ==
    <<"p","l","u","g","i","n",":",":","u","s","e","r","s","-","p","e","r","m","i","s",
      "s","i","o","n","s",".","u","s","e","r">>
UserName == <<"U","s","e","r">>
MediaName == <<"M","e","d","i","a">>
ModificationName ==
    <<"A","d","m","i","n","P","a","n","e","l","R","e","l","a","t","i","o","n","P","r","o",
      "p","e","r","t","y","M","o","d","i","f","i","c","a","t","i","o","n">>

SchemaTypes == <<"Standard", "Plain", "NoRelations", "AdminPanelLifeCycle">>

(***************************************************************************)
(* Lines of generated text.                                                *)
(***************************************************************************)
\* `${indentation}${propertyName}: ${type};\n`, propertyName with its `?`
Prop(indentation, name, optional, type) ==
    [kind |-> "prop", indent |-> indentation, name |-> name,
     optional |-> optional, type |-> type]

\* any other line, given by its characters
Raw(text) ==
    [kind |-> "raw", indent |-> "", name |-> "", optional |-> FALSE, type |-> text]

RenderLine(l) ==
    IF l.kind = "raw" THEN l.type
    ELSE l.indent \o l.name \o (IF l.optional THEN "?" ELSE "") \o ": " \o l.type \o ";"

(***************************************************************************)
(* isOptional                                                              *)
(***************************************************************************)
isOptional(attributeValue) ==
    IF \/ (Has(attributeValue, "relation") /\ attributeValue.relation = oneToMany)
       \/ IsTrue(attributeValue, "repeatable")
    THEN FALSE
    ELSE ~IsTrue(attributeValue, "required")

(***************************************************************************)
(* buildInterfaceText: the loop body, for one attribute                    *)
(***************************************************************************)
\* propertyType of a relation attribute
RelationPropertyType(attributeValue, schemaType) ==
    LET base == IF Includes(attributeValue.target, UserNeedle)
                THEN UserName
                ELSE pascalCase(SplitSecond(attributeValue.target, "."))
    IN  IF schemaType \in {"Plain", "AdminPanelLifeCycle"}
        THEN base \o PlainSuffix ELSE base

\* propertyType of a component attribute
ComponentPropertyType(attributeValue, schemaType) ==
    LET base == IF Has(attributeValue, "target")
                   /\ attributeValue.target = UsersPermissionsUser
                THEN UserName
                ELSE pascalCase(SplitSecond(attributeValue.component, "."))
        plain == IF schemaType \in {"Plain", "AdminPanelLifeCycle"}
                 THEN base \o PlainSuffix ELSE base
    IN  IF schemaType = "NoRelations" THEN plain \o NoRelationsSuffix ELSE plain

\* the type expression of a relation or media property of type propertyType
ReferenceTypeText(propertyType, bracketsIfArray, schemaType) ==
    CASE schemaType = "Standard" ->
             "{ data: " \o Str(propertyType) \o bracketsIfArray \o " }"
      [] schemaType = "Plain" -> Str(propertyType) \o bracketsIfArray
      [] schemaType = "NoRelations" -> "number" \o bracketsIfArray
      [] schemaType = "AdminPanelLifeCycle" ->
             "AdminPanelRelationPropertyModification<" \o Str(propertyType) \o ">"
                 \o bracketsIfArray

RECURSIVE EnumOptions(_)
EnumOptions(values) ==
    IF values = <<>> THEN ""
    ELSE "'" \o Head(values) \o "'"
            \o (IF Tail(values) = <<>> THEN "" ELSE " | " \o EnumOptions(Tail(values)))

TextTypes == {"string", "text", "richtext", "email", "password", "uid"}
NumberTypes == {"integer", "biginteger", "decimal", "float"}
DateTypes == {"date", "datetime", "time"}

\* the lines added to interfaceText for one attribute (propertyDefinition)
PropertyDefinition(attributeName, attributeValue, schemaType, indentation) ==
    LET optional == isOptional(attributeValue)
        line(type) == <<Prop(indentation, attributeName, optional, type)>>
        t == attributeValue.type
    IN  IF t = "relation" THEN
            line(ReferenceTypeText(
                   RelationPropertyType(attributeValue, schemaType),
                   IF EndsWith(attributeValue.relation, ToMany) THEN "[]" ELSE "",
                   schemaType))
        ELSE IF t = "component" THEN
            line(Str(ComponentPropertyType(attributeValue, schemaType))
                   \o (IF IsTrue(attributeValue, "repeatable") THEN "[]" ELSE ""))
        ELSE IF t = "dynamiczone" THEN line("any")
        ELSE IF t = "media" THEN
            line(ReferenceTypeText(
                   MediaName,
                   IF IsTrue(attributeValue, "multiple") THEN "[]" ELSE "",
                   schemaType))
        ELSE IF t = "enumeration" THEN line(EnumOptions(attributeValue.enum))
        ELSE IF t \in TextTypes THEN line("string")
        ELSE IF t = "json" THEN line("any")
        ELSE IF t = "password" THEN <<>>
        ELSE IF t \in NumberTypes THEN line("number")
        ELSE IF t \in DateTypes THEN line("Date")
        ELSE IF t = "boolean" THEN line("boolean")
        ELSE line("any")

\* what the loop body pushes to interfaceDependencies for one attribute
PropertyDependencies(attributeValue, schemaType) ==
    LET modification == IF schemaType = "AdminPanelLifeCycle"
                        THEN <<ModificationName>> ELSE <<>>
        t == attributeValue.type
    IN  CASE t = "relation" ->
                 <<RelationPropertyType(attributeValue, schemaType)>> \o modification
          [] t = "component" -> <<ComponentPropertyType(attributeValue, schemaType)>>
          [] t = "media" -> <<MediaName>> \o modification
          [] OTHER -> <<>>

(***************************************************************************)
(* buildInterfaceText                                                      *)
(***************************************************************************)
InterfaceName(schemaInfo, schemaType) ==
    CASE schemaType = "Standard" -> schemaInfo.pascalName
      [] schemaType = "Plain" -> schemaInfo.pascalName \o PlainSuffix
      [] schemaType = "NoRelations" -> schemaInfo.pascalName \o NoRelationsSuffix
      [] schemaType = "AdminPanelLifeCycle" ->
             schemaInfo.pascalName \o AdminPanelLifeCycleSuffix

\* `export interface ${interfaceName} {`
InterfaceHeader(schemaInfo, schemaType) ==
    Raw("export interface " \o Str(InterfaceName(schemaInfo, schemaType)) \o " {")

Wrapped(schemaInfo, schemaType) ==
    schemaInfo.source = "Api" /\ schemaType = "Standard"

Indentation(schemaInfo, schemaType) ==
    IF Wrapped(schemaInfo, schemaType) THEN "    " ELSE "  "

\* the two lines of a localized schema
LocalizationLines(schemaInfo, schemaType) ==
    LET indentation == Indentation(schemaInfo, schemaType)
    IN  IF schemaInfo.schema[1].localized
        THEN << Prop(indentation, "locale", FALSE, "string"),
                Prop(indentation, "localizations", TRUE,
                     IF schemaType = "Standard"
                     THEN "{ data: " \o Str(schemaInfo.pascalName) \o "[] }"
                     ELSE Str(schemaInfo.pascalName) \o "[]") >>
        ELSE <<>>

\* the lines of interfaceText (each ends with \n in the code)
BuildInterfaceText(schemaInfo, schemaType) ==
    LET attributes == schemaInfo.schema[1].attributes
        indentation == Indentation(schemaInfo, schemaType)
    IN  <<InterfaceHeader(schemaInfo, schemaType)>>
        \o (IF schemaInfo.source = "Api" THEN <<Prop("  ", "id", FALSE, "number")>>
            ELSE <<>>)
        \o (IF Wrapped(schemaInfo, schemaType) THEN <<Raw("  attributes: {")>> ELSE <<>>)
        \o Concat([k \in 1..Len(attributes) |->
                    PropertyDefinition(attributes[k].name, attributes[k].value,
                                       schemaType, indentation)])
        \o LocalizationLines(schemaInfo, schemaType)
        \o (IF Wrapped(schemaInfo, schemaType) THEN <<Raw("  };")>> ELSE <<>>)
        \o <<Raw("}")>>

\* interfaceDependencies after buildInterfaceText: the types, in push order
InterfaceDependencies(schemaInfo, schemaType) ==
    LET attributes == schemaInfo.schema[1].attributes
    IN  Concat([k \in 1..Len(attributes) |->
                 PropertyDependencies(attributes[k].value, schemaType)])

(***************************************************************************)
(* Paths.  A folder is the sequence of its segments; a path string is the  *)
(* sequence of its segments and separators.                                *)
(***************************************************************************)
Sep(windows) == IF windows THEN "\\" ELSE "/"

\* schemaInfo.destinationFolder, as the string the code holds
FolderPath(folder, windows) ==
    Concat([k \in 1..Len(folder) |-> <<Sep(windows), folder[k]>>])

RECURSIVE CommonPrefixLen(_, _)
CommonPrefixLen(a, b) ==
    IF a = <<>> \/ b = <<>> \/ Head(a) # Head(b) THEN 0
    ELSE 1 + CommonPrefixLen(Tail(a), Tail(b))

\* FileHelpers.getRelativePath: the path from one folder to another, './' when
\* they are the same folder
GetRelativePath(fromFolder, toFolder, windows) ==
    LET n == CommonPrefixLen(fromFolder, toFolder)
        ups == [k \in 1..(Len(fromFolder) - n) |-> ".."]
        segs == ups \o SubSeq(toFolder, n + 1, Len(toFolder))
    IN  IF segs = <<>> THEN <<".", "/">>
        ELSE <<Head(segs)>>
                \o Concat([k \in 1..(Len(segs) - 1) |-> <<Sep(windows), segs[k + 1]>>])

\* result.replaceAll('\\', '/')
ReplaceAllBackslashes(path) ==
    [k \in 1..Len(path) |-> IF path[k] = "\\" THEN "/" ELSE path[k]]

\* path.join(importPath, fileName) of the platform: on Windows every
\* separator of the result is a backslash
PathJoin(importPath, fileName, windows) ==
    LET joined == importPath \o <<Sep(windows), fileName>>
    IN  IF windows
        THEN [k \in 1..Len(joined) |-> IF joined[k] = "/" THEN "\\" ELSE joined[k]]
        ELSE joined

GetImportPath(importPath, fileName, windows) ==
    LET result == IF importPath = <<".", "/">>
                  THEN <<".", "/", fileName>>
                  ELSE PathJoin(importPath, fileName, windows)
    IN  IF windows THEN ReplaceAllBackslashes(result) ELSE result

\* commonHelpers.getFileNameFromSchema(schemaInfo, false)
GetFileNameFromSchema(schemaInfo) == schemaInfo.fileName

(***************************************************************************)
(* convertToInterface                                                      *)
(***************************************************************************)
\* dependency.type.replace('_Plain', '').replace('_NoRelations', '')
BaseTypeName(type) == Replace(Replace(type, PlainSuffix, <<>>), NoRelationsSuffix, <<>>)

\* allSchemas.find(x => x.pascalName === ...): the index of the first match, or 0
FindDependencySchema(allSchemas, type) ==
    LET base == BaseTypeName(type)
        hits == { k \in 1..Len(allSchemas) : allSchemas[k].pascalName = base }
    IN  IF hits = {} THEN 0 ELSE CHOOSE k \in hits : \A j \in hits : k <= j

\* DependencyImportPath that takes a type it does not find for a file of the
\* schema's own folder
DependencyImportPathSameFolder(schemaInfo, allSchemas, type, windows) ==
    LET k == FindDependencySchema(allSchemas, type)
    IN  IF k = 0 THEN GetImportPath(<<".", "/">>, Str(type), windows)
        ELSE GetImportPath(
                 GetRelativePath(schemaInfo.destinationFolder,
                                 allSchemas[k].destinationFolder, windows),
                 GetFileNameFromSchema(allSchemas[k]), windows)

\* importPath of one dependency
DependencyImportPath(schemaInfo, allSchemas, type, windows) ==
    LET k == FindDependencySchema(allSchemas, type)
    IN  IF k = 0 THEN FolderPath(schemaInfo.destinationFolder, windows)
        ELSE GetImportPath(
                 GetRelativePath(schemaInfo.destinationFolder,
                                 allSchemas[k].destinationFolder, windows),
                 GetFileNameFromSchema(allSchemas[k]), windows)

\* `import { ${dependency.type} } from '${importPath}';`
DependencyImport(schemaInfo, allSchemas, type, windows) ==
    "import { " \o Str(type) \o " } from '"
        \o Str(DependencyImportPath(schemaInfo, allSchemas, type, windows)) \o "';"

\* the statements one call of convertToInterface pushes to schemaInfo.dependencies
DependencyImports(schemaInfo, allSchemas, schemaType, windows) ==
    LET types == InterfaceDependencies(schemaInfo, schemaType)
    IN  [k \in 1..Len(types) |-> DependencyImport(schemaInfo, allSchemas, types[k], windows)]

\* the assignment that ends convertToInterface
StoreInterfaceText(schemaInfo, schemaType, interfaceText) ==
    CASE schemaType = "Standard" -> [schemaInfo EXCEPT !.interfaceAsText = interfaceText]
      [] schemaType = "Plain" -> [schemaInfo EXCEPT !.plainInterfaceAsText = interfaceText]
      [] schemaType = "NoRelations" ->
             [schemaInfo EXCEPT !.noRelationsInterfaceAsText = interfaceText]
      [] schemaType = "AdminPanelLifeCycle" ->
             [schemaInfo EXCEPT
                !.adminPanelLifeCycleRelationsInterfaceAsText = interfaceText]

\* convertToInterface without its first test: a schema without a definition
\* gets the interface of a schema without attributes
convertToInterfaceWithoutSkip(schemaInfo, allSchemas, schemaType, windows) ==
    IF schemaInfo.schema = Undefined
    THEN StoreInterfaceText(schemaInfo, schemaType,
                            <<InterfaceHeader(schemaInfo, schemaType), Raw("}")>>)
    ELSE StoreInterfaceText(
             [schemaInfo EXCEPT !.dependencies =
                 @ \o DependencyImports(schemaInfo, allSchemas, schemaType, windows)],
             schemaType,
             BuildInterfaceText(schemaInfo, schemaType))

\* schemaInfo after convertToInterface(schemaInfo, allSchemas, schemaType)
convertToInterface(schemaInfo, allSchemas, schemaType, windows) ==
    IF schemaInfo.schema = Undefined THEN schemaInfo
    ELSE StoreInterfaceText(
             [schemaInfo EXCEPT !.dependencies =
                 @ \o DependencyImports(schemaInfo, allSchemas, schemaType, windows)],
             schemaType,
             BuildInterfaceText(schemaInfo, schemaType))

(***************************************************************************)
(* convertSchemaToInterfaces                                               *)
(***************************************************************************)
\* [...new Set(dependencies)]: each statement once, at its first place
RECURSIVE UniqueFrom(_, _)
UniqueFrom(statements, seen) ==
    IF statements = <<>> THEN seen
    ELSE UniqueFrom(Tail(statements),
                    IF \E k \in 1..Len(seen) : seen[k] = Head(statements)
                    THEN seen ELSE Append(seen, Head(statements)))

\* UniqueInOrder without the Set: the statements as they were pushed
KeepAll(statements) == statements

\* UniqueInOrder that only drops a statement equal to the one before it
RECURSIVE DropAdjacentRepeats(_)
DropAdjacentRepeats(statements) ==
    IF Len(statements) <= 1 THEN statements
    ELSE IF statements[1] = statements[2] THEN DropAdjacentRepeats(Tail(statements))
    ELSE <<Head(statements)>> \o DropAdjacentRepeats(Tail(statements))

UniqueInOrder(statements) == UniqueFrom(statements, <<>>)

\* the variants convertSchemaToInterfaces generates for a schema
VariantsOf(schema) ==
    IF schema.source = "Api"
    THEN <<"Standard", "Plain", "NoRelations", "AdminPanelLifeCycle">>
    ELSE <<"Standard", "Plain", "NoRelations">>

RECURSIVE ConvertAll(_, _, _, _)
ConvertAll(schema, allSchemas, schemaTypes, windows) ==
    IF schemaTypes = <<>> THEN schema
    ELSE ConvertAll(convertToInterface(schema, allSchemas, Head(schemaTypes), windows),
                    allSchemas, Tail(schemaTypes), windows)

\* schema after convertSchemaToInterfaces(schema, schemas)
convertSchemaToInterfaces(schema, allSchemas, windows) ==
    LET converted == ConvertAll(schema, allSchemas, VariantsOf(schema), windows)
    IN  [converted EXCEPT !.dependencies = UniqueInOrder(@)]

(***************************************************************************)
(* buildInterfacesFileContent (prettierOptions undefined: the text is      *)
(* returned as assembled).  A text is the sequence of its lines.           *)
(***************************************************************************)
pluginName == "schemas-to-ts"

\* t1 + t2
TextAppend(t1, t2) ==
    SubSeq(t1, 1, Len(t1) - 1) \o <<t1[Len(t1)] \o t2[1]>> \o Tail(t2)

\* the text of a body: every line of it ends with \n; '' for a body never set
BodyText(body) == [k \in 1..Len(body) |-> RenderLine(body[k])] \o <<"">>

\* text.replace('\n\n', '\n'): the first empty line that has a line before it
\* and a \n after it goes away
ReplaceFirstDoubleNewline(text) ==
    LET hits == { k \in 2..(Len(text) - 1) : text[k] = "" }
    IN  IF hits = {} THEN text
        ELSE LET k == CHOOSE h \in hits : \A j \in hits : h <= j
             IN  SubSeq(text, 1, k - 1) \o SubSeq(text, k + 1, Len(text))

\* InterfacesText with the Plain body put before the Standard one
InterfacesTextPlainFirst(schema) ==
    TextAppend(
      TextAppend(
        TextAppend(BodyText(schema.plainInterfaceAsText),
                   <<"">> \o BodyText(schema.interfaceAsText)),
        <<"">> \o BodyText(schema.noRelationsInterfaceAsText)),
      <<"">> \o BodyText(schema.adminPanelLifeCycleRelationsInterfaceAsText))

\* interfacesText before the replace
InterfacesText(schema) ==
    TextAppend(
      TextAppend(
        TextAppend(BodyText(schema.interfaceAsText),
                   <<"">> \o BodyText(schema.plainInterfaceAsText)),
        <<"">> \o BodyText(schema.noRelationsInterfaceAsText)),
      <<"">> \o BodyText(schema.adminPanelLifeCycleRelationsInterfaceAsText))

buildInterfacesFileContent(schema) ==
    LET header == <<"// Interface automatically generated by " \o pluginName, "", "">>
        withDependencies ==
            IF Len(schema.dependencies) > 0
            THEN TextAppend(header, schema.dependencies \o <<"", "">>)
            ELSE header
    IN  TextAppend(withDependencies, ReplaceFirstDoubleNewline(InterfacesText(schema)))

(***************************************************************************)
(* The registry.                                                           *)
(***************************************************************************)
\* Object.assign({}, defaultSchemaInfo); every schema has a dependencies array
\* of its own
defaultSchemaInfo ==
    [pascalName |-> <<>>, destinationFolder |-> <<>>, fileName |-> "",
     source |-> "Common", schema |-> Undefined,
     interfaceAsText |-> <<>>, plainInterfaceAsText |-> <<>>,
     noRelationsInterfaceAsText |-> <<>>,
     adminPanelLifeCycleRelationsInterfaceAsText |-> <<>>,
     dependencies |-> <<>>]

commonFolderModelsPath == <<"src", "common">>

\* addCommonSchema; the literal body is cut down to its first and last line
CommonSchema(pascalName, generic, withPlain) ==
    LET body(suffix) ==
            <<Raw("export interface " \o Str(pascalName) \o suffix \o generic \o " {"),
              Raw("}")>>
    IN  [defaultSchemaInfo EXCEPT
            !.destinationFolder = commonFolderModelsPath,
            !.pascalName = pascalName,
            !.fileName = Str(pascalName),
            !.interfaceAsText = body(""),
            !.plainInterfaceAsText = IF withPlain THEN body("_Plain") ELSE <<>>]

\* generateCommonSchemas
GenerateCommonSchemas ==
    << CommonSchema(<<"P","a","y","l","o","a","d">>, "<T>", FALSE),
       CommonSchema(UserName, "", TRUE),
       CommonSchema(<<"M","e","d","i","a","F","o","r","m","a","t">>, "", FALSE),
       CommonSchema(MediaName, "", FALSE),
       CommonSchema(ModificationName, "<T>", FALSE),
       CommonSchema(<<"B","e","f","o","r","e","R","u","n","E","v","e","n","t">>, "<TState>", FALSE),
       CommonSchema(<<"A","f","t","e","r","R","u","n","E","v","e","n","t">>, "<TState, TResult>", FALSE) >>

\* a schema read from a schema.json file
UserSchema(pascalName, folder, fileName, source, schema) ==
    [defaultSchemaInfo EXCEPT
        !.pascalName = pascalName, !.destinationFolder = folder,
        !.fileName = fileName, !.source = source, !.schema = schema]

(***************************************************************************)
(* The schemas of the run: the common schemas, three schemas with fixed    *)
(* attributes and the schema Article, whose attributes, source and         *)
(* localization are chosen among the cases below.                          *)
(***************************************************************************)
TagTarget == <<"a","p","i",":",":","t","a","g",".","t","a","g">>
UserProfileTarget ==
    <<"a","p","i",":",":","u","s","e","r","-","p","r","o","f","i","l","e",".","u","s","e","r","-","p","r","o","f","i","l","e">>
GhostTarget == <<"a","p","i",":",":","g","h","o","s","t",".","g","h","o","s","t">>
SeoBlockComponent == <<"s","h","a","r","e","d",".","s","e","o","-","b","l","o","c","k">>

Attr(name, value) == [name |-> name, value |-> value]

AttributeCatalogue ==
    << Attr("secret", [type |-> "password"]),
       Attr("tags", [type |-> "relation", relation |-> manyToMany, target |-> TagTarget]),
       Attr("items", [type |-> "relation", relation |-> oneToMany, target |-> TagTarget,
                      required |-> FALSE]),
       Attr("author", [type |-> "relation", relation |-> manyToOne,
                       target |-> UsersPermissionsUser]),
       Attr("profile", [type |-> "relation", relation |-> oneToOne,
                        target |-> UserProfileTarget, required |-> TRUE]),
       Attr("ghost", [type |-> "relation", relation |-> manyToOne, target |-> GhostTarget]),
       Attr("seo", [type |-> "component", component |-> SeoBlockComponent,
                    repeatable |-> TRUE]),
       Attr("cover", [type |-> "media", multiple |-> FALSE]),
       Attr("gallery", [type |-> "media", multiple |-> TRUE, required |-> TRUE]),
       Attr("locale", [type |-> "string"]) >>

\* the attribute lists of Article: at most MaxAttrs entries of the catalogue,
\* in the order of the catalogue
AttributeLists ==
    LET K == Len(AttributeCatalogue)
        picks == UNION { [1..n -> 1..K] : n \in 0..MaxAttrs }
        increasing == { f \in picks : \A k \in 1..(Len(f) - 1) : f[k] < f[k + 1] }
    IN  { [k \in 1..Len(f) |-> AttributeCatalogue[f[k]]] : f \in increasing }

Sources == {"Api", "Component", "Plugin"}

ArticleSchemas ==
    {Undefined} \cup
    { Some([attributes |-> attributes, localized |-> localized]) :
        attributes \in AttributeLists, localized \in BOOLEAN }

TagAttributes ==
    << Attr("name", [type |-> "string", required |-> TRUE]),
       Attr("slug", [type |-> "uid"]),
       Attr("count", [type |-> "integer"]),
       Attr("when", [type |-> "datetime"]),
       Attr("flag", [type |-> "boolean"]),
       Attr("meta", [type |-> "json"]),
       Attr("zone", [type |-> "dynamiczone"]),
       Attr("misc", [type |-> "customField"]),
       Attr("status", [type |-> "enumeration", enum |-> <<"draft", "published">>]),
       Attr("seo", [type |-> "component", component |-> SeoBlockComponent]) >>

Tag ==
    UserSchema(<<"T","a","g">>, <<"src", "api", "tag">>, "tag", "Api",
               Some([attributes |-> TagAttributes, localized |-> FALSE]))

UserProfile ==
    UserSchema(<<"U","s","e","r","P","r","o","f","i","l","e">>,
               <<"src", "api", "user-profile">>, "user-profile", "Api",
               Some([attributes |-> <<Attr("bio", [type |-> "text"])>>,
                     localized |-> FALSE]))

SeoBlock ==
    UserSchema(<<"S","e","o","B","l","o","c","k">>, <<"src", "components", "shared">>,
               "SeoBlock", "Component",
               Some([attributes |-> <<Attr("metaTitle", [type |-> "string"])>>,
                     localized |-> FALSE]))

Article(source, schema) ==
    UserSchema(<<"A","r","t","i","c","l","e">>, <<"src", "api", "article">>,
               "article", source, schema)

ArticleIndex == Len(GenerateCommonSchemas) + 1
TagIndex == Len(GenerateCommonSchemas) + 2

\* the schemas the run converts and writes, in the order of the caller's loops
Batch == <<ArticleIndex, TagIndex>>
Generated == {ArticleIndex, TagIndex}

(***************************************************************************)
(* The state machine: the caller converts every schema of the batch, then  *)
(* builds the file content of every schema of the batch, and may run the   *)
(* generation again.                                                       *)
(***************************************************************************)
Init ==
    /\ isWindows \in BOOLEAN
    /\ \E source \in Sources, schema \in ArticleSchemas :
          schemas = GenerateCommonSchemas
                      \o <<Article(source, schema), Tag, UserProfile, SeoBlock>>
    /\ runs = [i \in Generated |-> 0]
    /\ files = [i \in Generated |-> Undefined]
    /\ pc = [phase |-> "convert", at |-> 1]

\* the caller's position after the step at pc, whose loop is followed by `then`
Advance(then) ==
    IF pc.at = Len(Batch) THEN [phase |-> then, at |-> 1]
    ELSE [pc EXCEPT !.at = @ + 1]

ConvertSchemaToInterfaces ==
    LET i == Batch[pc.at]
    IN  /\ pc.phase = "convert"
        /\ runs[i] < MaxRuns
        /\ schemas' = [schemas EXCEPT
                         ![i] = convertSchemaToInterfaces(schemas[i], schemas, isWindows)]
        /\ runs' = [runs EXCEPT ![i] = @ + 1]
        /\ pc' = Advance("write")
        /\ UNCHANGED <<isWindows, files>>

BuildInterfacesFileContent ==
    LET i == Batch[pc.at]
    IN  /\ pc.phase = "write"
        /\ files' = [files EXCEPT ![i] = Some(buildInterfacesFileContent(schemas[i]))]
        /\ pc' = Advance("convert")
        /\ UNCHANGED <<isWindows, schemas, runs>>

Next ==
    \/ ConvertSchemaToInterfaces
    \/ BuildInterfacesFileContent

Spec == Init /\ [][Next]_vars

(***************************************************************************)
(* Reading the generated text.                                             *)
(***************************************************************************)
Range(f) == { f[k] : k \in DOMAIN f }

\* the body convertToInterface stores for a variant
InterfaceText(schema, schemaType) ==
    CASE schemaType = "Standard" -> schema.interfaceAsText
      [] schemaType = "Plain" -> schema.plainInterfaceAsText
      [] schemaType = "NoRelations" -> schema.noRelationsInterfaceAsText
      [] schemaType = "AdminPanelLifeCycle" ->
             schema.adminPanelLifeCycleRelationsInterfaceAsText

AttributesOf(schema) ==
    IF schema.schema = Undefined THEN <<>> ELSE schema.schema[1].attributes

\* the places of the property lines of a body that declare a field called name
LinesNamed(body, name) ==
    { k \in 1..Len(body) : body[k].kind = "prop" /\ body[k].name = name }

\* the line of a generated body that the k-th attribute of the schema gave:
\* the loop adds one line for each attribute, after the lines that open the body
AttributeLine(schema, schemaType, k) ==
    InterfaceText(schema, schemaType)[
        1 + (IF schema.source = "Api" THEN 1 ELSE 0)
          + (IF Wrapped(schema, schemaType) THEN 1 ELSE 0) + k]

\* the first place of a line in a text, or 0
IndexOfLine(text, line) ==
    LET hits == { k \in 1..Len(text) : text[k] = line }
    IN  IF hits = {} THEN 0 ELSE CHOOSE k \in hits : \A j \in hits : k <= j

NoBodyWritten(schema) ==
    \A schemaType \in Range(SchemaTypes) : InterfaceText(schema, schemaType) = <<>>

IsRelation(attribute) == attribute.value.type = "relation"
IsToMany(attribute) == IsRelation(attribute) /\ EndsWith(attribute.value.relation, ToMany)

(***************************************************************************)
(* C1.  A password attribute gives no property line in any of the four     *)
(* variants: no field of a generated body has the attribute's name.        *)
(* The code gives it a `string` line: 'password' is among the text types   *)
(* tested before the password branch, which is never reached.              *)
(***************************************************************************)
C1_PasswordEmitsNoField ==
    \A i \in Generated : runs[i] >= 1 =>
        \A k \in 1..Len(AttributesOf(schemas[i])) :
            AttributesOf(schemas[i])[k].value.type = "password" =>
                \A schemaType \in Range(SchemaTypes) :
                    LinesNamed(InterfaceText(schemas[i], schemaType),
                               AttributesOf(schemas[i])[k].name) = {}

(***************************************************************************)
(* C2.  The line of a relation ending in ToMany is never marked optional   *)
(* in the Plain and NoRelations variants, whatever its required flag.      *)
(* The code tests relation === 'oneToMany' only, so a manyToMany relation  *)
(* that is not required is marked optional.                                *)
(***************************************************************************)
C2_ManyRelationNeverOptional ==
    \A i \in Generated : runs[i] >= 1 =>
        \A k \in 1..Len(AttributesOf(schemas[i])) :
            IsToMany(AttributesOf(schemas[i])[k]) =>
                \A schemaType \in {"Plain", "NoRelations"} :
                    ~AttributeLine(schemas[i], schemaType, k).optional

(***************************************************************************)
(* C3.  Idempotence: a call of convertSchemaToInterfaces on a schema that  *)
(* was converted before leaves the schema (its four bodies and its         *)
(* dependencies) as it was, and buildInterfacesFileContent returns, for a  *)
(* schema whose content was built before, the same text again.             *)
(***************************************************************************)
C3_Idempotent ==
    [][\A i \in Generated :
          /\ runs[i] >= 1 =>
                /\ \A schemaType \in Range(SchemaTypes) :
                      InterfaceText(schemas'[i], schemaType)
                        = InterfaceText(schemas[i], schemaType)
                /\ schemas'[i].dependencies = schemas[i].dependencies
          /\ files[i] # Undefined => files'[i] = files[i]]_vars

\* a schema with import statements, converted twice and written twice
C3_Witness ==
    /\ runs[ArticleIndex] = 2
    /\ pc = [phase |-> "write", at |-> 2]
    /\ Len(schemas[ArticleIndex].dependencies) >= 2
    /\ files[ArticleIndex] # Undefined

\* the types the generated variants of a schema depend on
TypesOf(schema) ==
    UNION { Range(InterfaceDependencies(schema, schemaType)) :
              schemaType \in Range(VariantsOf(schema)) }

\* the places, in the dependencies of a schema, of the statements that import
\* a type of the target called base
StatementsFor(schema, base) ==
    LET statements == { DependencyImport(schema, schemas, type, isWindows) :
                          type \in { t \in TypesOf(schema) : BaseTypeName(t) = base } }
    IN  { k \in 1..Len(schema.dependencies) : schema.dependencies[k] \in statements }

\* the target an attribute depends on: <<>>, or <<the name of the target>>
TargetOf(attribute) ==
    LET types == PropertyDependencies(attribute.value, "Standard")
    IN  IF types = <<>> THEN <<>> ELSE <<BaseTypeName(types[1])>>

(***************************************************************************)
(* C4.  As claimed: when two attributes of a schema depend on the same     *)
(* target, the dependencies of the converted schema hold exactly one       *)
(* statement for that target.  The variants depend on the target under     *)
(* different names (Tag, Tag_Plain), and each name has its statement.      *)
(***************************************************************************)
C4_OneImportPerTarget ==
    \A i \in Generated : (runs[i] >= 1 /\ schemas[i].schema # Undefined) =>
        \A k1, k2 \in 1..Len(AttributesOf(schemas[i])) :
            LET target == TargetOf(AttributesOf(schemas[i])[k1])
            IN  (k1 # k2 /\ target # <<>>
                   /\ target = TargetOf(AttributesOf(schemas[i])[k2])) =>
                    Cardinality(StatementsFor(schemas[i], target[1])) = 1

(***************************************************************************)
(* C4, amended.  Deduplication: after convertSchemaToInterfaces, every     *)
(* type name a variant of the schema depends on (the name of a target, as  *)
(* such or with the suffix of the variant) has exactly one import          *)
(* statement in the schema's dependencies, however many attributes and     *)
(* variants depend on it, and no statement is there twice.                 *)
(***************************************************************************)
C4_OneImportPerType ==
    \A i \in Generated : (runs[i] >= 1 /\ schemas[i].schema # Undefined) =>
        LET dependencies == schemas[i].dependencies
        IN  /\ \A type \in TypesOf(schemas[i]) :
                    LET statement ==
                            DependencyImport(schemas[i], schemas, type, isWindows)
                    IN  Cardinality({ k \in 1..Len(dependencies) :
                                        dependencies[k] = statement }) = 1
            /\ \A k1, k2 \in 1..Len(dependencies) :
                 dependencies[k1] = dependencies[k2] => k1 = k2

\* a converted schema with two attributes that depend on the same type
C4_Witness ==
    /\ runs[ArticleIndex] >= 1
    /\ schemas[ArticleIndex].schema # Undefined
    /\ \E k1, k2 \in 1..Len(AttributesOf(schemas[ArticleIndex])) :
          /\ k1 # k2
          /\ TargetOf(AttributesOf(schemas[ArticleIndex])[k1]) # <<>>
          /\ TargetOf(AttributesOf(schemas[ArticleIndex])[k1])
               = TargetOf(AttributesOf(schemas[ArticleIndex])[k2])
    /\ Len(schemas[ArticleIndex].dependencies) >= 2

(***************************************************************************)
(* C5.  Every generated body of a localized schema has exactly one field   *)
(* `locale` and exactly one field `localizations`, the latter of the form  *)
(* { data: ... } in the Standard variant only, whatever attributes the     *)
(* schema declares.  The code adds the two lines after the attribute       *)
(* lines without looking at the attribute names, so a schema that          *)
(* declares an attribute `locale` gets two fields of that name.            *)
(***************************************************************************)
C5_OneLocalePair ==
    \A i \in Generated :
        (runs[i] >= 1 /\ schemas[i].schema # Undefined /\ schemas[i].schema[1].localized) =>
            \A schemaType \in Range(VariantsOf(schemas[i])) :
                LET body == InterfaceText(schemas[i], schemaType) IN
                /\ Cardinality(LinesNamed(body, "locale")) = 1
                /\ Cardinality(LinesNamed(body, "localizations")) = 1
                /\ \A k \in LinesNamed(body, "localizations") :
                      body[k].type =
                        IF schemaType = "Standard"
                        THEN "{ data: " \o Str(schemas[i].pascalName) \o "[] }"
                        ELSE Str(schemas[i].pascalName) \o "[]"

(***************************************************************************)
(* C6.  In the AdminPanelLifeCycle variant the type of a relation is       *)
(* AdminPanelRelationPropertyModification<Target_Plain> and the type of a  *)
(* media attribute AdminPanelRelationPropertyModification<Media>, with no  *)
(* [] after it, for one and for many.  The code appends bracketsIfArray    *)
(* to the wrapper, so a ToMany relation and a multiple media get `[]`.     *)
(***************************************************************************)
C6_ModificationWithoutBrackets ==
    \A i \in Generated : (runs[i] >= 1 /\ schemas[i].source = "Api") =>
        \A k \in 1..Len(AttributesOf(schemas[i])) :
            LET value == AttributesOf(schemas[i])[k].value
                type == AttributeLine(schemas[i], "AdminPanelLifeCycle", k).type
            IN  /\ value.type = "relation" =>
                     type = "AdminPanelRelationPropertyModification<"
                              \o Str(RelationPropertyType(value, "AdminPanelLifeCycle"))
                              \o ">"
                /\ value.type = "media" =>
                     type = "AdminPanelRelationPropertyModification<Media>"

(***************************************************************************)
(* C7.  As claimed: convertSchemaToInterfaces populates all four bodies of *)
(* every schema that has attribute definitions, whatever its source.       *)
(* The code generates the AdminPanelLifeCycle variant for source Api only. *)
(***************************************************************************)
C7_AllFourPopulated ==
    \A i \in Generated : (runs[i] >= 1 /\ schemas[i].schema # Undefined) =>
        \A schemaType \in Range(SchemaTypes) :
            InterfaceText(schemas[i], schemaType) # <<>>

\* the body of a variant is in the text from the line `at` on
BodyAt(text, body, at) ==
    /\ at >= 1
    /\ at + Len(body) - 1 <= Len(text)
    /\ \A k \in 1..Len(body) : text[at + k - 1] = RenderLine(body[k])

(***************************************************************************)
(* C7, amended.  For a schema with a schema definition, the Standard,      *)
(* Plain and NoRelations bodies are populated, and the AdminPanelLifeCycle *)
(* body too when the source is Api; for any other source that body is left *)
(* as it was.  The file content is the comment line, the import            *)
(* statements in the order of the dependencies, and then the generated     *)
(* bodies in the order Standard, Plain, NoRelations, AdminPanelLifeCycle.  *)
(***************************************************************************)
C7_VariantsPopulatedInOrder ==
    \A i \in Generated : (runs[i] >= 1 /\ schemas[i].schema # Undefined) =>
        LET schema == schemas[i]
            variants == VariantsOf(schema)
            headers == [v \in 1..Len(variants) |-> InterfaceHeader(schema, variants[v])]
            header(v) == headers[v]
        IN  /\ Len(variants) = IF schema.source = "Api" THEN 4 ELSE 3
            /\ SubSeq(SchemaTypes, 1, Len(variants)) = variants
            /\ \A v \in 1..Len(variants) :
                  /\ InterfaceText(schema, variants[v]) # <<>>
                  /\ InterfaceText(schema, variants[v])[1] = header(v)
            /\ \A schemaType \in Range(SchemaTypes) \ Range(variants) :
                  InterfaceText(schema, schemaType) = <<>>
            /\ files[i] # Undefined =>
                 LET text == files[i][1]
                     n == Len(schema.dependencies)
                     places == [v \in 1..Len(variants) |->
                                  IndexOfLine(text, RenderLine(header(v)))]
                     at(v) == places[v]
                 IN  /\ \A k \in 1..n : text[2 + k] = schema.dependencies[k]
                     /\ \A v \in 1..Len(variants) :
                          /\ at(v) > 2 + n
                          /\ BodyAt(text, InterfaceText(schema, variants[v]), at(v))
                          /\ v > 1 =>
                               at(v) >= at(v - 1)
                                          + Len(InterfaceText(schema, variants[v - 1]))

\* a schema that is not of source Api, with import statements, converted and
\* written
C7_Witness ==
    /\ schemas[ArticleIndex].source # "Api"
    /\ schemas[ArticleIndex].schema # Undefined
    /\ runs[ArticleIndex] >= 1
    /\ Len(schemas[ArticleIndex].dependencies) >= 2
    /\ files[ArticleIndex] # Undefined

C9_ImportPathResolved ==
    \A i \in Generated : (runs[i] >= 1 /\ schemas[i].schema # Undefined) =>
        \A schemaType \in Range(VariantsOf(schemas[i])) :
            \A type \in Range(InterfaceDependencies(schemas[i], schemaType)) :
                LET base == BaseTypeName(type)
                    found == { k \in 1..Len(schemas) : schemas[k].pascalName = base }
                    first == CHOOSE k \in found : \A j \in found : k <= j
                    relative == GetRelativePath(schemas[i].destinationFolder,
                                                schemas[first].destinationFolder,
                                                isWindows)
                    path == IF found = {}
                            THEN FolderPath(schemas[i].destinationFolder, isWindows)
                            ELSE IF relative = <<".", "/">>
                            THEN <<".", "/", schemas[first].fileName>>
                            ELSE Concat([k \in 1..Len(relative) |->
                                           <<IF relative[k] = "\\" THEN "/"
                                             ELSE relative[k]>>])
                                   \o <<"/", schemas[first].fileName>>
                IN  "import { " \o Str(type) \o " } from '" \o Str(path) \o "';"
                        \in Range(schemas[i].dependencies)

\* a converted schema with a relation to a schema that is not in the registry,
\* one to a schema in another folder and the statements of both
C9_Witness ==
    /\ runs[ArticleIndex] >= 1
    /\ ~isWindows
    /\ "import { Ghost } from '/src/api/article';"
          \in Range(schemas[ArticleIndex].dependencies)
    /\ "import { Tag_Plain } from '../tag/tag';"
          \in Range(schemas[ArticleIndex].dependencies)

(***************************************************************************)
(* C10.  A relation whose target is not the user entity of the platform    *)
(* (plugin::users-permissions.user) is typed after its own target and      *)
(* depends on that type, never on User.  The code takes every target that  *)
(* contains '::user' for the user entity, api::user-profile.user-profile   *)
(* among them.                                                             *)
(***************************************************************************)
C10_UserOnlyForPlatformUser ==
    \A i \in Generated : runs[i] >= 1 =>
        \A k \in 1..Len(AttributesOf(schemas[i])) :
            LET attribute == AttributesOf(schemas[i])[k]
                own == pascalCase(SplitSecond(attribute.value.target, "."))
                brackets == IF IsToMany(attribute) THEN "[]" ELSE ""
            IN  (IsRelation(attribute) /\ attribute.value.target # UsersPermissionsUser) =>
                    /\ AttributeLine(schemas[i], "Standard", k).type
                         = "{ data: " \o Str(own) \o brackets \o " }"
                    /\ AttributeLine(schemas[i], "Plain", k).type
                         = Str(own) \o "_Plain" \o brackets

====
